---- MODULE Spec2Model ----
(***************************************************************************)
(* Model of the concurrency backbone of SmartDiabetesAssistant:            *)
(*   - VideoProcessingPipeline (src/src/processing/video_pipeline.py):     *)
(*       producer / consumer tasks around a bounded asyncio.Queue;         *)
(*   - FeedbackCoordinator (src/src/feedback/coordinator.py):              *)
(*       deduplication, severity ordering, modality mapping, dispatch.     *)
(* Each asyncio task is modelled by its position between two awaits; the   *)
(* code between two awaits is one atomic action.                           *)
(***************************************************************************)
EXTENDS Integers, Sequences, FiniteSets, TLC

(***************************************************************************)
(* Bounds of the model                                                     *)
(***************************************************************************)
\* largest queue_size tried (the constructor argument)
MaxCap == 2
\* number of successful camera reads explored
MaxReads == 3
\* number of successful start() calls explored (each spawns a task pair)
MaxTasks == 2

\* deduplication across calls: send_feedback calls explored, and the longest
\* batch they are given
MaxSends == 2
MaxDedupBatch == 1
\* plan building: the longest batch explored, and the send_feedback calls
\* that are given such batches
MaxBatch == 2
MaxPlanSends == 1
\* plan execution with every modality call observed: calls and batch length
MaxDispatchSends == 1
MaxDispatchBatch == 1
\* generate_feedback calls explored, and the send_feedback calls next to them
MaxGens == 2
MaxGenSends == 1
\* send_feedback calls explored with alerts that differ in message text
MaxKeySends == 2
MaxExecBatch == 2
MaxExecSends == 1
MaxMixBatch == 2
MaxMixSends == 2
MaxConcSends == 2
MaxSysFrames == 2
MaxWindowSends == 3
MaxSortBatch == 3
MaxSortSends == 1
MaxJoinBatch == 2
MaxJoinSends == 1

TaskIds == 1..MaxTasks

\* value of producer_task / consumer_task before the first start()
NoTask == 0

\* value of a consumer's frame slot when no frame is in flight
NoFrame == [image |-> 0, frame_id |-> -1]

VARIABLES
    \* ---- VideoProcessingPipeline ----
    queue_size,       \* self.queue_size
    frame_queue,      \* self.frame_queue, oldest frame first
    frame_processor,  \* TRUE when a callable was passed to start(), FALSE for None
    running,          \* self.running
    producer_task,    \* self.producer_task: NoTask or the id of the last task spawned
    consumer_task,    \* self.consumer_task
    producers,        \* every producer task ever spawned: id -> state
    consumers,        \* every consumer task ever spawned: id -> [st, cur, failed]
    stats,            \* self.stats (the two counters)
    cap,              \* self.camera.cap: "none", "closed" (not opened), "open"
    stopping,         \* a stop() call is suspended in its gather
    \* ---- history of the run (not program state) ----
    reads,            \* number of frames the camera has delivered
    handed,           \* frames handed to the processor and the task that did, in order
    dropped,          \* images removed from the queue by the producer
    noneRead,         \* producer tasks whose read_frame() has returned None
    \* ---- FeedbackCoordinator ----
    feedback_history, \* self.feedback_history, oldest entry first
    now,              \* time.time(), in seconds
    pending,          \* per caller: the send_feedback call suspended in its plan
    result,           \* the value returned by the last generate_feedback call
    \* ---- history of the run (not program state) ----
    sendCount,        \* send_feedback calls made so far
    genCount,         \* generate_feedback calls made so far
    lastSend,         \* the last send_feedback call: batch, plan, time, what preceded
    lastRecord,       \* what the last _record_feedback appended
    lastDelivered,    \* per kind: when an alert with a plan step was last recorded
    lastRecorded,     \* per kind: when an alert was last recorded at all
    lastCall,         \* the previous call made on the coordinator
    genRepeat,        \* the last generate_feedback repeated the call before it
    dispatch,         \* the last plan step executed and what became of its calls
    calls,            \* the speak/vibrate/display calls made for the plans in execution
    \* ---- the frame callback of main.py and the MainAgent graph run ----
    work              \* the callback in progress: frame, node, graph state, history

pipeVars == <<queue_size, frame_queue, frame_processor, running, producer_task,
              consumer_task, producers, consumers, stats, cap, stopping,
              reads, handed, dropped, noneRead>>

coordVars == <<feedback_history, now, pending, result, sendCount, genCount,
               lastSend, lastRecord, lastDelivered, lastRecorded, lastCall,
               genRepeat, dispatch, calls>>

orchVars == <<work>>

vars == <<pipeVars, coordVars, orchVars>>

(***************************************************************************)
(* Helpers                                                                 *)
(***************************************************************************)
Images(q) == {q[i].image : i \in 1..Len(q)}

\* asyncio.Queue.full(): maxsize > 0 and qsize() >= maxsize
QueueFull(q, maxsize) == maxsize > 0 /\ Len(q) >= maxsize

\* Mutant: the queue grows instead of evicting.
EnqueueNoEvict(q, f, maxsize) == Append(q, f)

\* Mutant: the new frame is discarded when the queue is full.
EnqueueDropNewest(q, f, maxsize) ==
    IF QueueFull(q, maxsize) THEN q ELSE Append(q, f)

\* Mutant: the new frame is put at the head of the queue.
EnqueueAtHead(q, f, maxsize) ==
    IF QueueFull(q, maxsize) THEN <<f>> \o Tail(q) ELSE <<f>> \o q

\* Mutant: on overflow the queue is emptied before the new frame is put.
EnqueueClearOnFull(q, f, maxsize) ==
    IF QueueFull(q, maxsize) THEN <<f>> ELSE Append(q, f)

\* _produce_frames, lines 168-179: put_nowait, and on QueueFull
\* get_nowait (oldest out) followed by put_nowait (new frame at the tail).
Enqueue(q, f, maxsize) ==
    IF QueueFull(q, maxsize) THEN Append(Tail(q), f) ELSE Append(q, f)

\* Mutant: the producer awaits queue.put(), which waits for a free slot.
PutWaitsWhenFull(q, maxsize) == QueueFull(q, maxsize)

\* _produce_frames, lines 170 and 175-176: put_nowait and get_nowait return
\* or raise at once; the enqueue step never suspends the producer.
PutWaits(q, maxsize) == FALSE

\* Mutant: an eviction is not counted.
StatsAfterEnqueueDropUncounted(s, wasFull) ==
    IF wasFull THEN s ELSE [s EXCEPT !.frames_processed = @ + 1]

\* _produce_frames, lines 171 and 177: which counter is incremented.
StatsAfterEnqueue(s, wasFull) ==
    IF wasFull
    THEN [s EXCEPT !.frames_dropped = @ + 1]
    ELSE [s EXCEPT !.frames_processed = @ + 1]

\* Mutant: a processor exception ends the consumer task.
AfterProcessorRaiseFatal(run) == "done"

\* _consume_frames, lines 204-207 then the loop test of line 192: the
\* exception is caught and printed, the loop goes back to its condition.
AfterProcessorRaise(run) == IF run THEN "wait" ELSE "done"

\* _consume_frames after a normal return of the processor: loop test.
AfterProcessorReturn(run) == IF run THEN "wait" ELSE "done"

(***************************************************************************)
(* Initial state: after VideoProcessingPipeline.__init__                   *)
(***************************************************************************)
PipeInit ==
    /\ queue_size \in 1..MaxCap
    /\ frame_queue = <<>>
    /\ frame_processor = FALSE
    /\ running = FALSE
    /\ producer_task = NoTask
    /\ consumer_task = NoTask
    /\ producers = [t \in TaskIds |-> "absent"]
    /\ consumers = [t \in TaskIds |-> [st |-> "absent", cur |-> NoFrame, failed |-> FALSE]]
    /\ stats = [frames_processed |-> 0, frames_dropped |-> 0]
    /\ cap = "none"
    /\ stopping = FALSE
    /\ reads = 0
    /\ handed = <<>>
    /\ dropped = {}
    /\ noneRead = {}

(***************************************************************************)
(* VideoProcessingPipeline.start                                           *)
(***************************************************************************)
Spawned == {t \in TaskIds : producers[t] # "absent"}

\* start() when the capture device opens.
Start(fp) ==
    /\ Cardinality(Spawned) < MaxTasks
    /\ LET t == Cardinality(Spawned) + 1 IN
        /\ frame_queue' = <<>>
        /\ frame_processor' = fp
        /\ cap' = "open"
        /\ running' = TRUE
        /\ producer_task' = t
        /\ consumer_task' = t
        /\ producers' = [producers EXCEPT ![t] = "alive"]
        /\ consumers' = [consumers EXCEPT
                           ![t] = [st |-> "wait", cur |-> NoFrame, failed |-> FALSE]]
    /\ UNCHANGED <<queue_size, stats, stopping, reads, handed, dropped>>
    /\ UNCHANGED <<noneRead, coordVars, orchVars>>

\* Mutant: the tasks are spawned before the camera is opened.
StartFailsAfterSpawn(fp) ==
    /\ Cardinality(Spawned) < MaxTasks
    /\ LET t == Cardinality(Spawned) + 1 IN
        /\ frame_queue' = <<>>
        /\ frame_processor' = fp
        /\ cap' = "closed"
        /\ running' = TRUE
        /\ producer_task' = t
        /\ consumer_task' = t
        /\ producers' = [producers EXCEPT ![t] = "alive"]
        /\ consumers' = [consumers EXCEPT
                           ![t] = [st |-> "wait", cur |-> NoFrame, failed |-> FALSE]]
    /\ UNCHANGED <<queue_size, stats, stopping, reads, handed, dropped>>
    /\ UNCHANGED <<noneRead, coordVars, orchVars>>

\* start() when VideoCamera.start raises RuntimeError: the queue and the
\* processor have been replaced, nothing else has happened.
StartFails(fp) ==
    /\ frame_queue' = <<>>
    /\ frame_processor' = fp
    /\ cap' = "closed"
    /\ UNCHANGED <<queue_size, running, producer_task, consumer_task, producers,
                   consumers, stats, stopping, reads, handed, dropped>>
    /\ UNCHANGED <<noneRead, coordVars, orchVars>>

(***************************************************************************)
(* VideoProcessingPipeline._produce_frames: one loop iteration             *)
(***************************************************************************)
\* the frame built at lines 162-166 from the next camera image
NewFrame == [image |-> reads + 1, frame_id |-> stats.frames_processed]

\* camera.read_frame() returned an image.
ProducerRead(p) ==
    /\ producers[p] = "alive"
    /\ running
    /\ cap = "open"
    /\ reads < MaxReads
    /\ ~PutWaits(frame_queue, queue_size)
    /\ LET wasFull == QueueFull(frame_queue, queue_size)
           q2 == Enqueue(frame_queue, NewFrame, queue_size) IN
        /\ frame_queue' = q2
        /\ stats' = StatsAfterEnqueue(stats, wasFull)
        /\ dropped' = dropped \cup ((Images(frame_queue) \cup {reads + 1}) \ Images(q2))
    /\ reads' = reads + 1
    /\ UNCHANGED <<queue_size, frame_processor, running, producer_task, consumer_task,
                   producers, consumers, cap, stopping, handed>>
    /\ UNCHANGED <<noneRead, coordVars, orchVars>>

\* camera.read_frame() returned None (no device, or cap.read() failed):
\* the iteration only sleeps.  `observe` says whether the read is kept in
\* `noneRead`.
ProducerReadNone(p, observe) ==
    /\ producers[p] = "alive"
    /\ running
    /\ noneRead' = IF observe THEN noneRead \cup {p} ELSE noneRead
    /\ UNCHANGED <<queue_size, frame_queue, frame_processor, running, producer_task,
                   consumer_task, producers, consumers, stats, cap, stopping, reads,
                   handed, dropped>>
    /\ UNCHANGED <<coordVars, orchVars>>

\* the loop test `while self.running` fails after the sleep.
ProducerExit(p) ==
    /\ producers[p] = "alive"
    /\ ~running
    /\ producers' = [producers EXCEPT ![p] = "done"]
    /\ UNCHANGED <<queue_size, frame_queue, frame_processor, running, producer_task,
                   consumer_task, consumers, stats, cap, stopping, reads, handed, dropped>>
    /\ UNCHANGED <<noneRead, coordVars, orchVars>>

(***************************************************************************)
(* VideoProcessingPipeline._consume_frames                                 *)
(***************************************************************************)
\* wait_for(queue.get()) returns a frame; the processor call starts, or
\* with no processor the iteration ends at once.
ConsumerDequeue(c) ==
    /\ consumers[c].st = "wait"
    /\ frame_queue # <<>>
    /\ LET f == Head(frame_queue) IN
        /\ frame_queue' = Tail(frame_queue)
        /\ IF frame_processor
           THEN /\ consumers' = [consumers EXCEPT ![c].st = "proc", ![c].cur = f]
                /\ handed' = Append(handed, [frame |-> f, task |-> c])
           ELSE /\ consumers' = [consumers EXCEPT ![c].st = AfterProcessorReturn(running)]
                /\ handed' = handed
    /\ UNCHANGED <<queue_size, frame_processor, running, producer_task, consumer_task,
                   producers, stats, cap, stopping, reads, dropped>>
    /\ UNCHANGED <<noneRead, coordVars, orchVars>>

\* wait_for times out on an empty queue and the loop test fails.
ConsumerTimeoutExit(c) ==
    /\ consumers[c].st = "wait"
    /\ frame_queue = <<>>
    /\ ~running
    /\ consumers' = [consumers EXCEPT ![c].st = "done"]
    /\ UNCHANGED <<queue_size, frame_queue, frame_processor, running, producer_task,
                   consumer_task, producers, stats, cap, stopping, reads, handed, dropped>>
    /\ UNCHANGED <<noneRead, coordVars, orchVars>>

\* the awaited processor returns.
ProcessorReturns(c) ==
    /\ consumers[c].st = "proc"
    /\ consumers' = [consumers EXCEPT
                       ![c].st = AfterProcessorReturn(running), ![c].cur = NoFrame]
    /\ UNCHANGED <<queue_size, frame_queue, frame_processor, running, producer_task,
                   consumer_task, producers, stats, cap, stopping, reads, handed, dropped>>
    /\ UNCHANGED <<noneRead, coordVars, orchVars>>

\* the awaited processor raises an Exception.
ProcessorRaises(c) ==
    /\ consumers[c].st = "proc"
    /\ consumers' = [consumers EXCEPT
                       ![c].st = AfterProcessorRaise(running), ![c].cur = NoFrame,
                       ![c].failed = TRUE]
    /\ UNCHANGED <<queue_size, frame_queue, frame_processor, running, producer_task,
                   consumer_task, producers, stats, cap, stopping, reads, handed, dropped>>
    /\ UNCHANGED <<noneRead, coordVars, orchVars>>

(***************************************************************************)
(* VideoProcessingPipeline.stop                                            *)
(***************************************************************************)
\* task.cancel() on a task that is suspended: CancelledError is thrown at
\* its await (sleep, wait_for or the processor call) and is not caught by
\* `except Exception`, so the task ends there.
CancelProducer(ps, t) ==
    IF t # NoTask /\ ps[t] = "alive" THEN [ps EXCEPT ![t] = "done"] ELSE ps

CancelConsumer(cs, t) ==
    IF t # NoTask /\ cs[t].st \in {"wait", "proc"}
    THEN [cs EXCEPT ![t].st = "done", ![t].cur = NoFrame]
    ELSE cs

\* Mutant: stop() flips the running flag instead of clearing it.
StopBeginToggle ==
    /\ ~stopping
    /\ running' = ~running
    /\ producers' = CancelProducer(producers, producer_task)
    /\ consumers' = CancelConsumer(consumers, consumer_task)
    /\ stopping' = TRUE
    /\ UNCHANGED <<queue_size, frame_queue, frame_processor, producer_task,
                   consumer_task, stats, cap, reads, handed, dropped>>
    /\ UNCHANGED <<noneRead, coordVars, orchVars>>

\* stop() up to its `await asyncio.gather(...)`.
StopBegin ==
    /\ ~stopping
    /\ running' = FALSE
    /\ producers' = CancelProducer(producers, producer_task)
    /\ consumers' = CancelConsumer(consumers, consumer_task)
    /\ stopping' = TRUE
    /\ UNCHANGED <<queue_size, frame_queue, frame_processor, producer_task,
                   consumer_task, stats, cap, reads, handed, dropped>>
    /\ UNCHANGED <<noneRead, coordVars, orchVars>>

\* stop() after the gather: camera.stop() releases the device.
StopFinish ==
    /\ stopping
    /\ cap' = "none"
    /\ stopping' = FALSE
    /\ UNCHANGED <<queue_size, frame_queue, frame_processor, running, producer_task,
                   consumer_task, producers, consumers, stats, reads, handed, dropped>>
    /\ UNCHANGED <<noneRead, coordVars, orchVars>>

(***************************************************************************)
(* FeedbackCoordinator: constants and input domains                        *)
(***************************************************************************)
\* self.history_window_sec
history_window_sec == 30

\* class FeedbackPriority
CRITICAL == 0
WARNING == 1
INFO == 2

\* the severities _generate_feedback_plan has a branch for
Severities == {"critical", "warning", "info"}
\* severities a caller may pass: the three above and one unknown string
SeverityInputs == Severities \cup {"fatal"}
AlertKinds == {"angle_error", "angle_warning", "site_error", "site_warning",
               "site_correct", "speed_fast"}
Messages == {"msg"}
Modalities == {"audio", "vibration", "visual"}
\* the send_feedback callers; the coordinator specification uses the first
Callers == {1, 2}
\* the clock readings explored, in seconds: inside the window of an entry
\* recorded at 0, exactly one window later, and beyond it
Times == {0, 5, 30, 31}

Alert(kind, severity) ==
    [type |-> kind, severity |-> severity, message |-> CHOOSE m \in Messages : TRUE]

\* the alerts submitted (an alert's own timestamp is never read): the kinds
\* and severities DecisionAgent emits, one kind at two severities, and one
\* alert whose severity is unknown to the coordinator
Alerts == {Alert("angle_error", "critical"), Alert("angle_error", "warning"),
           Alert("site_warning", "warning"), Alert("site_correct", "info"),
           Alert("site_warning", "fatal")}
BatchesUpTo(n) == UNION {[1..k -> Alerts] : k \in 0..n}

SeqToSet(q) == {q[i] : i \in 1..Len(q)}
KindsOf(alerts) == {alerts[i].type : i \in 1..Len(alerts)}
Never == -1

(***************************************************************************)
(* FeedbackCoordinator: pure functions                                     *)
(***************************************************************************)
\* _get_severity_priority: priority_map.get(severity, FeedbackPriority.INFO)
get_severity_priority(severity) ==
    CASE severity = "critical" -> CRITICAL
      [] severity = "warning" -> WARNING
      [] severity = "info" -> INFO
      [] OTHER -> INFO

WithPriority(alerts, p) ==
    SelectSeq(alerts, LAMBDA a : get_severity_priority(a.severity) = p)

\* Mutant: sorted(alerts, key=priority)[::-1], which turns the ties round.
SortedAlertsTiesReversed(alerts) ==
    LET up == WithPriority(alerts, CRITICAL) \o WithPriority(alerts, WARNING)
                  \o WithPriority(alerts, INFO)
    IN [i \in 1..Len(up) |-> up[Len(up) + 1 - i]]

\* sorted(alerts, key=priority, reverse=True): a stable sort by descending
\* key, so the largest priority number comes first.
SortedAlerts(alerts) ==
    WithPriority(alerts, INFO) \o WithPriority(alerts, WARNING)
        \o WithPriority(alerts, CRITICAL)

\* Mutant: no purge, the history keeps every entry.
PurgeNothing(h, t) == h

\* _should_suppress, lines 375-381: the history kept after the purge.
Purge(h, t) ==
    SelectSeq(h, LAMBDA a : a.timestamp > t - history_window_sec)

\* Mutant: deduplication keyed by kind and message text.
ShouldSuppressByMessage(h, alert, t) ==
    \E i \in 1..Len(Purge(h, t)) :
        /\ Purge(h, t)[i].type = alert.type
        /\ Purge(h, t)[i].message = alert.message

\* Mutant: deduplication keyed by kind and severity.
ShouldSuppressByKindAndSeverity(h, alert, t) ==
    \E i \in 1..Len(Purge(h, t)) :
        /\ Purge(h, t)[i].type = alert.type
        /\ Purge(h, t)[i].severity = alert.severity

\* _should_suppress, lines 384-394: an entry of the same type is left in
\* the purged history.
ShouldSuppress(h, alert, t) ==
    \E i \in 1..Len(Purge(h, t)) :
        /\ Purge(h, t)[i].type = alert.type
        /\ Purge(h, t)[i].timestamp > t - history_window_sec

\* Mutant: the warning step loses its vibration.
StepForWeakWarning(alert) ==
    IF alert.severity = "critical"
    THEN [modalities |-> <<"audio", "vibration", "visual">>,
          synchronization |-> "simultaneous", urgency |-> "high", alert |-> alert]
    ELSE [modalities |-> <<"audio">>, synchronization |-> "none",
          urgency |-> IF alert.severity = "warning" THEN "medium" ELSE "low",
          alert |-> alert]

\* _generate_feedback_plan, lines 258-304: the step appended for an alert of
\* a known severity; `alert` remembers which alert the step was built from.
StepFor(alert) ==
    CASE alert.severity = "critical" ->
            [modalities |-> <<"audio", "vibration", "visual">>,
             synchronization |-> "simultaneous", urgency |-> "high", alert |-> alert]
      [] alert.severity = "warning" ->
            [modalities |-> <<"audio", "vibration">>,
             synchronization |-> "simultaneous", urgency |-> "medium", alert |-> alert]
      [] OTHER ->
            [modalities |-> <<"audio">>,
             synchronization |-> "none", urgency |-> "low", alert |-> alert]

\* Mutant: the loop over the sorted batch ends at the first suppressed alert.
SurvivorsUntilSuppressed(h, alerts, t) ==
    LET sorted == SortedAlerts(alerts)
        hit == {i \in 1..Len(sorted) : ShouldSuppress(h, sorted[i], t)}
        first == IF hit = {} THEN Len(sorted) + 1
                 ELSE CHOOSE i \in hit : \A j \in hit : i <= j
    IN SubSeq(sorted, 1, first - 1)

\* Mutant: when every alert of the batch is suppressed the most urgent one
\* is let through all the same.
SurvivorsOrReminder(h, alerts, t) ==
    LET sorted == SortedAlerts(alerts)
        kept == SelectSeq(sorted, LAMBDA a : ~ShouldSuppress(h, a, t))
    IN IF kept = <<>> /\ sorted # <<>> THEN <<sorted[Len(sorted)]>> ELSE kept

\* the alerts of the sorted batch that _should_suppress lets through
Survivors(h, alerts, t) ==
    SelectSeq(SortedAlerts(alerts), LAMBDA a : ~ShouldSuppress(h, a, t))

\* _generate_feedback_plan: one step per surviving alert whose severity has
\* a branch; an alert of another severity gets no step.
GeneratePlan(h, alerts, t) ==
    LET known == SelectSeq(Survivors(h, alerts, t), LAMBDA a : a.severity \in Severities)
    IN [i \in 1..Len(known) |-> StepFor(known[i])]

\* _record_feedback: one entry per alert of the batch, stamped with the
\* time of the call.
RecordFeedback(h, alerts, t) ==
    h \o [i \in 1..Len(alerts) |->
            [type |-> alerts[i].type, severity |-> alerts[i].severity,
             message |-> alerts[i].message, timestamp |-> t]]

\* Mutant: the calls are awaited one after the other with no handler, so
\* the first failure ends the step and leaves execute as an exception.
AwaitInTurnNoCatch(mods, failing) ==
    LET bad == {i \in 1..Len(mods) : mods[i] \in failing}
        stop == IF bad = {} THEN Len(mods) ELSE CHOOSE i \in bad : \A j \in bad : i <= j
    IN [invoked |-> {mods[i] : i \in 1..stop},
        completed |-> {mods[i] : i \in 1..stop} \ failing,
        escaped |-> bad # {}]

\* _execute_feedback_plan, line 337: asyncio.gather(*tasks,
\* return_exceptions=True) runs every call and returns the exceptions.
GatherAll(mods, failing) ==
    [invoked |-> SeqToSet(mods),
     completed |-> SeqToSet(mods) \ failing,
     escaped |-> FALSE]

\* Mutant: the calls of a sequential step are awaited with no handler.
AwaitEachNoCatch(mods, failing) == AwaitInTurnNoCatch(mods, failing)

\* _execute_feedback_plan, lines 340-344: each call awaited in turn inside
\* try/except Exception.
AwaitEach(mods, failing) ==
    [invoked |-> SeqToSet(mods),
     completed |-> SeqToSet(mods) \ failing,
     escaped |-> FALSE]

\* _execute_feedback_plan, lines 319-344: one step of the plan.
Dispatch(step, failing) ==
    IF step.synchronization = "simultaneous" /\ Len(step.modalities) > 1
    THEN GatherAll(step.modalities, failing)
    ELSE AwaitEach(step.modalities, failing)

(***************************************************************************)
(* FeedbackCoordinator: initial state (after __init__)                     *)
(***************************************************************************)
Idle == [st |-> "idle", alerts |-> <<>>, plan |-> <<>>, full |-> <<>>, survivors |-> 0]
NoDispatch == [step |-> 0, modalities |-> <<>>, synchronization |-> "none",
               failing |-> {}, invoked |-> {}, completed |-> {}, escaped |-> FALSE,
               trace |-> <<>>, failedBefore |-> FALSE]

CoordInit ==
    /\ feedback_history = <<>>
    /\ now = 0
    /\ pending = [c \in Callers |-> Idle]
    /\ result = [modalities |-> <<>>, message |-> "", deduplicated |-> FALSE]
    /\ sendCount = 0
    /\ genCount = 0
    /\ lastSend = [n |-> 0, alerts |-> <<>>, plan |-> <<>>, time |-> 0,
                   prevDelivered |-> [k \in AlertKinds |-> Never],
                   prevRecorded |-> [k \in AlertKinds |-> Never]]
    /\ lastRecord = [appended |-> 0, survivors |-> 0]
    /\ lastDelivered = [k \in AlertKinds |-> Never]
    /\ lastRecorded = [k \in AlertKinds |-> Never]
    /\ lastCall = [op |-> "none", type |-> "", time |-> 0]
    /\ genRepeat = FALSE
    /\ dispatch = NoDispatch
    /\ calls = {}

(***************************************************************************)
(* FeedbackCoordinator.send_feedback                                       *)
(***************************************************************************)
\* the kinds that got a step in a plan
StepKinds(plan) == {plan[i].alert.type : i \in 1..Len(plan)}

\* the bookkeeping of one _record_feedback call at time t
Recorded(alerts, full, survivors, t) ==
    /\ lastRecord' = [appended |-> Len(alerts), survivors |-> survivors]
    /\ lastDelivered' = [k \in AlertKinds |->
                           IF k \in StepKinds(full) THEN t ELSE lastDelivered[k]]
    /\ lastRecorded' = [k \in AlertKinds |->
                          IF k \in KindsOf(alerts) THEN t ELSE lastRecorded[k]]

\* send_feedback up to its first suspension: returns at once on an empty
\* batch; otherwise builds the plan, and with an empty plan also records.
SendFeedback(c, alerts) ==
    /\ pending[c].st = "idle"
    /\ sendCount' = sendCount + 1
    /\ lastCall' = [op |-> "send", type |-> "", time |-> now]
    /\ LET plan == GeneratePlan(feedback_history, alerts, now)
           nsurv == Len(Survivors(feedback_history, alerts, now))
       IN
        /\ lastSend' = [n |-> sendCount + 1, alerts |-> alerts,
                        plan |-> IF alerts = <<>> THEN <<>> ELSE plan, time |-> now,
                        prevDelivered |-> lastDelivered, prevRecorded |-> lastRecorded]
        /\ IF alerts = <<>>
           THEN UNCHANGED <<feedback_history, pending, lastRecord, lastDelivered, lastRecorded>>
           ELSE IF plan = <<>>
           THEN /\ feedback_history' = RecordFeedback(Purge(feedback_history, now), alerts, now)
                /\ Recorded(alerts, plan, nsurv, now)
                /\ UNCHANGED pending
           ELSE /\ feedback_history' = Purge(feedback_history, now)
                /\ pending' = [pending EXCEPT ![c] =
                       [st |-> "exec", alerts |-> alerts, plan |-> plan, full |-> plan,
                        survivors |-> nsurv]]
                /\ UNCHANGED <<lastRecord, lastDelivered, lastRecorded>>
    /\ dispatch' = NoDispatch
    /\ UNCHANGED <<now, result, genCount, genRepeat, calls>>
    /\ UNCHANGED <<pipeVars, orchVars>>

\* _execute_feedback_plan: the calls of the next step finish, those in
\* `failing` by raising; after the last step send_feedback records.
\* `observe` says whether the outcome of the calls is kept in `dispatch`:
\* the calls of this step, the calls invoked step by step since the plan
\* was built, and whether a call of an earlier step raised.
ExecuteStep(c, failing, observe) ==
    /\ pending[c].st = "exec"
    /\ LET step == Head(pending[c].plan)
           d == Dispatch(step, failing)
       IN
        /\ failing \subseteq SeqToSet(step.modalities)
        /\ dispatch' = IF observe
                       THEN [step |-> Len(pending[c].full) - Len(pending[c].plan) + 1,
                             modalities |-> step.modalities,
                             synchronization |-> step.synchronization,
                             failing |-> failing, invoked |-> d.invoked,
                             completed |-> d.completed, escaped |-> d.escaped,
                             trace |-> Append(dispatch.trace, d.invoked),
                             failedBefore |-> (dispatch.failedBefore \/ dispatch.failing # {})]
                       ELSE dispatch
        /\ IF d.escaped
           THEN /\ pending' = [pending EXCEPT ![c] = Idle]
                /\ UNCHANGED <<feedback_history, lastRecord, lastDelivered, lastRecorded>>
           ELSE IF Len(pending[c].plan) = 1
           THEN /\ pending' = [pending EXCEPT ![c] = Idle]
                /\ feedback_history' = RecordFeedback(feedback_history, pending[c].alerts, now)
                /\ Recorded(pending[c].alerts, pending[c].full, pending[c].survivors, now)
           ELSE /\ pending' = [pending EXCEPT ![c].plan = Tail(@)]
                /\ UNCHANGED <<feedback_history, lastRecord, lastDelivered, lastRecorded>>
    /\ UNCHANGED <<now, result, sendCount, genCount, lastSend, lastCall, genRepeat, calls>>
    /\ UNCHANGED <<pipeVars, orchVars>>

(***************************************************************************)
(* FeedbackCoordinator._execute_feedback_plan, call by call: every         *)
(* speak/vibrate/display coroutine starts, may suspend, and ends            *)
(***************************************************************************)
\* the position in the plan of the step caller c is executing
CurrentStep(c) == Len(pending[c].full) - Len(pending[c].plan) + 1

\* the calls made for the step caller c is executing
StepCalls(c) == {x \in calls : x.caller = c /\ x.step = CurrentStep(c)}

\* the position of a modality among the tasks of a step (lines 322-331)
TaskIndex(step, m) == CHOOSE i \in 1..Len(step.modalities) : step.modalities[i] = m

\* lines 334-344: when the coroutine of modality m begins to run.  Under
\* gather the tasks are scheduled together and begin in the order of the
\* list; in the loop a coroutine begins when the ones before it have ended.
MayStart(step, m, made) ==
    /\ m \in SeqToSet(step.modalities)
    /\ \A x \in made : x.modality # m
    /\ \A i \in 1..(TaskIndex(step, m) - 1) :
           \E x \in made :
               /\ x.modality = step.modalities[i]
               /\ (step.synchronization = "simultaneous" /\ Len(step.modalities) > 1)
                      \/ x.st # "run"

\* Mutant: the step waits with asyncio.wait(..., return_when=FIRST_COMPLETED).
JoinedFirstCompleted(step, made) ==
    \E m \in SeqToSet(step.modalities) :
        \E x \in made : x.modality = m /\ x.st # "run"

\* lines 337 and 340-344: the await of the step returns when every call of
\* the step has returned or raised.
Joined(step, made) ==
    \A m \in SeqToSet(step.modalities) :
        \E x \in made : x.modality = m /\ x.st # "run"

\* a coroutine of the current step begins to run
CallStart(c, m) ==
    /\ pending[c].st = "exec"
    /\ ~Joined(Head(pending[c].plan), StepCalls(c))
    /\ MayStart(Head(pending[c].plan), m, StepCalls(c))
    /\ calls' = calls \cup
                  {[caller |-> c, step |-> CurrentStep(c), modality |-> m, st |-> "run",
                    overlapped |-> (\E x \in StepCalls(c) : x.st = "run")]}
    /\ UNCHANGED <<feedback_history, now, pending, result, sendCount, genCount, lastSend,
                   lastRecord, lastDelivered, lastRecorded, lastCall, genRepeat, dispatch>>
    /\ UNCHANGED <<pipeVars, orchVars>>

\* a running coroutine returns, or raises when `raises`
CallEnd(c, m, raises) ==
    /\ \E x \in calls :
          /\ x.caller = c /\ x.modality = m /\ x.st = "run"
          /\ calls' = (calls \ {x}) \cup
                        {[x EXCEPT !.st = IF raises THEN "failed" ELSE "done"]}
    /\ UNCHANGED <<feedback_history, now, pending, result, sendCount, genCount, lastSend,
                   lastRecord, lastDelivered, lastRecorded, lastCall, genRepeat, dispatch>>
    /\ UNCHANGED <<pipeVars, orchVars>>

\* the await of the step returns: the loop goes to the next step, or
\* execute returns and send_feedback records (the plan is no longer in
\* execution).
StepDone(c) ==
    /\ pending[c].st = "exec"
    /\ Joined(Head(pending[c].plan), StepCalls(c))
    /\ IF Len(pending[c].plan) = 1
       THEN /\ pending' = [pending EXCEPT ![c] = Idle]
            /\ feedback_history' = RecordFeedback(feedback_history, pending[c].alerts, now)
            /\ Recorded(pending[c].alerts, pending[c].full, pending[c].survivors, now)
            /\ calls' = {x \in calls : x.caller # c}
       ELSE /\ pending' = [pending EXCEPT ![c].plan = Tail(@)]
            /\ UNCHANGED <<feedback_history, lastRecord, lastDelivered, lastRecorded, calls>>
    /\ UNCHANGED <<now, result, sendCount, genCount, lastSend, lastCall, genRepeat,
                   dispatch>>
    /\ UNCHANGED <<pipeVars, orchVars>>

(***************************************************************************)
(* FeedbackCoordinator.generate_feedback                                   *)
(***************************************************************************)
GenerateFeedback(kind, severity, message) ==
    /\ [type |-> kind, severity |-> severity, message |-> message] \in Alerts
    /\ genCount < MaxGens
    /\ genCount' = genCount + 1
    /\ LET alert == [type |-> kind, severity |-> severity, message |-> message]
           plan == GeneratePlan(feedback_history, <<alert>>, now)
       IN
        /\ result' =
              IF ShouldSuppress(feedback_history, alert, now)
              THEN [modalities |-> <<>>, message |-> message, deduplicated |-> TRUE]
              ELSE [modalities |-> IF plan # <<>> THEN plan[1].modalities ELSE <<>>,
                    message |-> message, deduplicated |-> FALSE]
        /\ feedback_history' = Purge(feedback_history, now)
    /\ genRepeat' = (/\ lastCall.op = "generate"
                     /\ lastCall.type = kind
                     /\ now - lastCall.time < history_window_sec)
    /\ lastCall' = [op |-> "generate", type |-> kind, time |-> now]
    /\ UNCHANGED <<now, pending, sendCount, lastSend, lastRecord, lastDelivered,
                   lastRecorded, dispatch, calls>>
    /\ UNCHANGED <<pipeVars, orchVars>>

(***************************************************************************)
(* The clock                                                               *)
(***************************************************************************)
Tick(t) ==
    /\ t > now
    /\ now' = t
    /\ UNCHANGED <<feedback_history, pending, result, sendCount, genCount, lastSend,
                   lastRecord, lastDelivered, lastRecorded, lastCall, genRepeat, dispatch,
                   calls>>
    /\ UNCHANGED <<pipeVars, orchVars>>

(***************************************************************************)
(* The per-frame callback of main.py and the MainAgent workflow: input     *)
(* domains                                                                 *)
(***************************************************************************)
\* an empty dict {} returned for a sub-analysis
NoPose == [present |-> FALSE, joint |-> 0]
NoSite == [present |-> FALSE, is_recommended |-> FALSE]
NoFlow == [present |-> FALSE, avg_speed |-> 0]

\* pose results by the shoulder-elbow-wrist angle, in degrees: 150 gives an
\* injection angle of 60 (valid), 120 gives 30 (too small)
JointAngles == {150, 120}
Poses == {[present |-> TRUE, joint |-> a] : a \in JointAngles}
Sites == {[present |-> TRUE, is_recommended |-> r] : r \in BOOLEAN}
Flows == {[present |-> TRUE, avg_speed |-> 5]}

\* what one sub-analysis coroutine does: it raises, or it returns a result
PoseOutcomes == {[raises |-> TRUE, value |-> NoPose]}
                    \cup {[raises |-> FALSE, value |-> v] : v \in Poses}
SiteOutcomes == {[raises |-> TRUE, value |-> NoSite]}
                    \cup {[raises |-> FALSE, value |-> v] : v \in Sites}
FlowOutcomes == {[raises |-> TRUE, value |-> NoFlow]}
                    \cup {[raises |-> FALSE, value |-> v] : v \in Flows}
Scenes == [pose : PoseOutcomes, site : SiteOutcomes, flow : FlowOutcomes]

\* start_monitoring: the state every frame is processed from (the keys the
\* nodes read or write)
InitialState ==
    [pose_data |-> NoPose, injection_site |-> NoSite, injection_angle |-> 0,
     injection_speed |-> 0, current_step |-> "idle", alerts |-> <<>>]

\* class AgentState: the keys of the graph state among those above
AgentStateKeys == DOMAIN InitialState

(***************************************************************************)
(* StateGraph(AgentState): a linear workflow over the channels of the      *)
(* state schema                                                            *)
(***************************************************************************)
END == "END"
EntryPoint == "vision_processing"

\* Mutant: the workflow goes from vision processing to feedback generation.
EdgeSkippingDecision(node) ==
    CASE node = "vision_processing" -> "feedback_generation"
      [] node = "decision_making" -> "feedback_generation"
      [] node = "feedback_generation" -> "multimodal_output"
      [] node = "multimodal_output" -> END

\* _build_graph, lines 97-102: add_edge
Edge(node) ==
    CASE node = "vision_processing" -> "decision_making"
      [] node = "decision_making" -> "feedback_generation"
      [] node = "feedback_generation" -> "multimodal_output"
      [] node = "multimodal_output" -> END

\* Mutant: the dict a node returns becomes the state as it is.
WriteChannelsKeepAll(state, returned) == returned

\* the state after a node has returned `returned`: the channels of the
\* schema take the values of their keys, a key outside the schema has no
\* channel
WriteChannels(state, returned) ==
    [k \in AgentStateKeys |-> IF k \in DOMAIN returned THEN returned[k] ELSE state[k]]

\* state.get(key, default)
StateGet(state, key, default) ==
    IF key \in DOMAIN state THEN state[key] ELSE default

(***************************************************************************)
(* VisionAgent.process_frame and the metrics of _vision_processing_node    *)
(***************************************************************************)
AnyRaises(scene) == scene.pose.raises \/ scene.site.raises \/ scene.flow.raises

\* Mutant: gather without return_exceptions, the first exception leaves
\* process_frame.
GatherFirstException(scene) ==
    IF AnyRaises(scene)
    THEN [raised |-> TRUE, pose |-> NoPose, site |-> NoSite, flow |-> NoFlow]
    ELSE [raised |-> FALSE, pose |-> scene.pose.value, site |-> scene.site.value,
          flow |-> scene.flow.value]

\* process_frame, lines 120-132: gather(return_exceptions=True), then {}
\* in the place of every result that is an exception
GatherResults(scene) ==
    [raised |-> FALSE,
     pose |-> IF scene.pose.raises THEN NoPose ELSE scene.pose.value,
     site |-> IF scene.site.raises THEN NoSite ELSE scene.site.value,
     flow |-> IF scene.flow.raises THEN NoFlow ELSE scene.flow.value]

\* _calculate_injection_angle: abs(90 - angle of the three points)
calculate_injection_angle(pose_data) ==
    IF pose_data.joint >= 90 THEN pose_data.joint - 90 ELSE 90 - pose_data.joint

\* _calculate_injection_speed: the mean speed of the flow vectors
calculate_injection_speed(flow) == flow.avg_speed

(***************************************************************************)
(* DecisionAgent.evaluate                                                  *)
(***************************************************************************)
\* _initialize_rules
angle_min == 45
angle_max == 90
angle_tolerance == 5
max_speed == 10

\* Mutant: an angle of 0 is taken as "no measurement" and gives no alert.
check_angle_skipping_zero(angle) ==
    IF angle = 0 THEN <<>>
    ELSE IF angle < angle_min - angle_tolerance \/ angle > angle_max + angle_tolerance
    THEN <<Alert("angle_error", "critical")>>
    ELSE IF angle < angle_min \/ angle > angle_max
    THEN <<Alert("angle_warning", "warning")>>
    ELSE <<>>

\* _check_angle: outside the range widened by the tolerance, else outside
\* the range
check_angle(angle) ==
    IF angle < angle_min - angle_tolerance \/ angle > angle_max + angle_tolerance
    THEN <<Alert("angle_error", "critical")>>
    ELSE IF angle < angle_min \/ angle > angle_max
    THEN <<Alert("angle_warning", "warning")>>
    ELSE <<>>

\* Mutant: a recommended site gives no alert (no positive feedback).
check_site_silent_when_correct(site) ==
    IF ~site.present THEN <<Alert("site_error", "warning")>>
    ELSE IF ~site.is_recommended THEN <<Alert("site_warning", "warning")>>
    ELSE <<>>

\* _check_site: `if not site`, then site.get("is_recommended", False)
check_site(site) ==
    IF ~site.present THEN <<Alert("site_error", "warning")>>
    ELSE IF ~site.is_recommended THEN <<Alert("site_warning", "warning")>>
    ELSE <<Alert("site_correct", "info")>>

check_speed(speed) ==
    IF speed > max_speed THEN <<Alert("speed_fast", "critical")>> ELSE <<>>

\* evaluate, lines 108-129: the alerts of the checks that returned one, in
\* the order angle, site, speed; _check_workflow returns None
evaluate(context) ==
    check_angle(context.angle) \o check_site(context.site)
        \o (IF context.current_step = "injection_deliver"
            THEN check_speed(context.speed) ELSE <<>>)

(***************************************************************************)
(* MainAgent: the nodes                                                    *)
(***************************************************************************)
NoContext == [called |-> FALSE, angle |-> 0, site |-> NoSite, speed |-> 0,
              current_step |-> ""]
NoScene == [pose |-> [raises |-> FALSE, value |-> NoPose],
            site |-> [raises |-> FALSE, value |-> NoSite],
            flow |-> [raises |-> FALSE, value |-> NoFlow]]
NoWork == [frame |-> 0, node |-> "none", state |-> WriteChannels(InitialState, InitialState),
           scene |-> NoScene,
           results |-> [raised |-> FALSE, pose |-> NoPose, site |-> NoSite, flow |-> NoFlow],
           context |-> NoContext, returned |-> <<>>, evalRaised |-> FALSE,
           trace |-> <<>>, calls |-> {},
           base |-> 0, history0 |-> <<>>]

OrchInit == work = NoWork

\* the callback of consumer task c is running on the frame of `work`
InCallback(c) ==
    /\ consumers[c].st = "proc"
    /\ consumers[c].cur.image = work.frame

\* main.py, process_frame(frame_data) is called by the consumer: it calls
\* MainAgent.process_frame, which starts the graph on initial_state.
StartGraph(c) ==
    /\ consumers[c].st = "proc"
    /\ consumers[c].cur.image # work.frame
    /\ work' = [NoWork EXCEPT !.frame = consumers[c].cur.image, !.node = EntryPoint,
                              !.base = sendCount, !.history0 = feedback_history]
    /\ UNCHANGED <<pipeVars, coordVars>>

\* _vision_processing_node: perception, then the metrics.
VisionProcessingNode(c, scene) ==
    /\ InCallback(c)
    /\ work.node = "vision_processing"
    /\ LET vision_results == GatherResults(scene)
           angle == IF vision_results.pose.present
                    THEN calculate_injection_angle(vision_results.pose) ELSE 0
           speed == IF vision_results.flow.present
                    THEN calculate_injection_speed(vision_results.flow) ELSE 0
           returned == [work.state EXCEPT !.pose_data = vision_results.pose,
                                          !.injection_site = vision_results.site,
                                          !.injection_angle = angle,
                                          !.injection_speed = speed]
       IN IF vision_results.raised
          THEN work' = [work EXCEPT !.node = "raised", !.scene = scene,
                                    !.results = vision_results,
                                    !.trace = Append(@, "perceive")]
          ELSE work' = [work EXCEPT !.node = Edge("vision_processing"),
                                    !.state = WriteChannels(work.state, returned),
                                    !.scene = scene, !.results = vision_results,
                                    !.trace = @ \o <<"perceive", "derive">>]
    /\ UNCHANGED <<pipeVars, coordVars>>

\* Mutant: the node catches the evaluator's exception and reports it as an
\* alert.
DecisionNodeFallbackAlert(state) ==
    [node |-> Edge("decision_making"),
     state |-> WriteChannels(state, [state EXCEPT !.alerts = <<Alert("site_error", "warning")>>])]

\* _decision_making_node, line 168: the await has no handler, the
\* evaluator's exception leaves the node and the graph run.
DecisionNodeOnError(state) == [node |-> "raised", state |-> state]

\* _decision_making_node; `raises` says whether decision_agent.evaluate
\* raised.
DecisionMakingNode(c, raises) ==
    /\ InCallback(c)
    /\ work.node = "decision_making"
    /\ LET context == [called |-> TRUE, angle |-> work.state.injection_angle,
                       site |-> work.state.injection_site,
                       speed |-> work.state.injection_speed,
                       current_step |-> work.state.current_step]
           returned == [work.state EXCEPT !.alerts = evaluate(context)]
       IN IF raises
          THEN work' = [work EXCEPT !.node = DecisionNodeOnError(work.state).node,
                                    !.state = DecisionNodeOnError(work.state).state,
                                    !.context = context, !.evalRaised = TRUE,
                                    !.trace = Append(@, "decide")]
          ELSE work' = [work EXCEPT !.node = Edge("decision_making"),
                                    !.state = WriteChannels(work.state, returned),
                                    !.context = context,
                                    !.returned = evaluate(context),
                                    !.trace = Append(@, "decide")]
    /\ UNCHANGED <<pipeVars, coordVars>>

\* _feedback_generation_node, lines 203-243: the entries for one alert
FeedbackEntries(alert) ==
    CASE alert.severity = "critical" ->
            <<[modality |-> "audio", kind |-> alert.type],
              [modality |-> "vibration", kind |-> alert.type],
              [modality |-> "visual", kind |-> alert.type]>>
      [] alert.severity = "warning" ->
            <<[modality |-> "audio", kind |-> alert.type],
              [modality |-> "vibration", kind |-> alert.type]>>
      [] alert.severity = "info" -> <<[modality |-> "audio", kind |-> alert.type]>>
      [] OTHER -> <<>>

RECURSIVE FeedbackPlanFor(_)
FeedbackPlanFor(alerts) ==
    IF alerts = <<>> THEN <<>>
    ELSE FeedbackEntries(Head(alerts)) \o FeedbackPlanFor(Tail(alerts))

\* _feedback_generation_node: the plan is put into the dict under
\* "feedback_plan" and the dict is returned.
FeedbackGenerationNode(c) ==
    /\ InCallback(c)
    /\ work.node = "feedback_generation"
    /\ LET alerts == work.state.alerts
           positive == IF alerts = <<>>
                          /\ work.state.current_step \in {"injection_deliver", "completed"}
                       THEN <<[modality |-> "audio", kind |-> "operation_correct"]>>
                       ELSE <<>>
           feedback_plan == FeedbackPlanFor(alerts) \o positive
           returned == ("feedback_plan" :> feedback_plan) @@ work.state
       IN work' = [work EXCEPT !.node = Edge("feedback_generation"),
                               !.state = WriteChannels(work.state, returned),
                               !.trace = Append(@, "generate")]
    /\ UNCHANGED <<pipeVars, coordVars>>

\* _multimodal_output_node: speak, vibrate and display are called for the
\* entries of state.get("feedback_plan", []); `calls` keeps them.
MultimodalOutputNode(c) ==
    /\ InCallback(c)
    /\ work.node = "multimodal_output"
    /\ LET feedback_plan == StateGet(work.state, "feedback_plan", <<>>)
       IN work' = [work EXCEPT !.node = Edge("multimodal_output"),
                               !.calls = SeqToSet(feedback_plan),
                               !.trace = Append(@, "dispatch")]
    /\ UNCHANGED <<pipeVars, coordVars>>

(***************************************************************************)
(* main.py: the rest of the callback                                       *)
(***************************************************************************)
\* lines 115-116: the alerts of the result go to the coordinator.
SysSend(c) ==
    /\ InCallback(c)
    /\ work.node = END
    /\ work.state.alerts # <<>>
    /\ sendCount = work.base
    /\ SendFeedback(1, work.state.alerts)

\* the callback returns to the consumer loop.
SysProcessorReturns(c) ==
    /\ InCallback(c)
    /\ work.node = END
    /\ pending[1].st = "idle"
    /\ work.state.alerts = <<>> \/ sendCount > work.base
    /\ ProcessorReturns(c)

\* the exception of the graph run leaves the callback.
SysProcessorRaises(c) ==
    /\ InCallback(c)
    /\ work.node = "raised"
    /\ ProcessorRaises(c)

(***************************************************************************)
(* Specification of the system of main.py: one start(), the frames of the  *)
(* camera go through the callback one by one                               *)
(***************************************************************************)
SysStart == Spawned = {} /\ Start(TRUE)

SysRead(p) == reads < MaxSysFrames /\ ProducerRead(p)

SysInit == PipeInit /\ queue_size = MaxCap /\ CoordInit /\ OrchInit

SysNext ==
    \/ SysStart
    \/ \E p \in TaskIds : SysRead(p)
    \/ \E c \in TaskIds : ConsumerDequeue(c)
    \/ \E c \in TaskIds : StartGraph(c)
    \/ \E c \in TaskIds, scene \in Scenes : VisionProcessingNode(c, scene)
    \/ \E c \in TaskIds, raises \in BOOLEAN : DecisionMakingNode(c, raises)
    \/ \E c \in TaskIds : FeedbackGenerationNode(c)
    \/ \E c \in TaskIds : MultimodalOutputNode(c)
    \/ \E c \in TaskIds : SysSend(c)
    \/ \E failing \in SUBSET Modalities : ExecuteStep(1, failing, FALSE)
    \/ \E c \in TaskIds : SysProcessorReturns(c)
    \/ \E c \in TaskIds : SysProcessorRaises(c)
    \/ \E t \in Times : Tick(t)

SystemSpec == SysInit /\ [][SysNext]_vars

(***************************************************************************)
(* DecisionAgent.evaluate called on any context, next to the system        *)
(***************************************************************************)
\* the injection angles tried: the sentinel 0, below the tolerance, inside
\* the lower tolerance, valid, inside the upper tolerance, above it
EvalAngles == {0, 30, 42, 60, 93, 100}
EvalSites == {NoSite} \cup Sites
\* the speeds tried: the sentinel 0, below the limit, above it
EvalSpeeds == {0, 5, 15}
EvalSteps == {"idle", "injection_deliver", "completed"}

\* evaluate(context) called before the first frame of the session
EvaluateCall(angle, site, speed, current_step) ==
    /\ work.node = "none"
    /\ LET context == [called |-> TRUE, angle |-> angle, site |-> site,
                       speed |-> speed, current_step |-> current_step]
       IN work' = [work EXCEPT !.context = context, !.returned = evaluate(context)]
    /\ UNCHANGED <<pipeVars, coordVars>>

EvalNext ==
    \/ SysNext
    \/ \E angle \in EvalAngles, site \in EvalSites, speed \in EvalSpeeds,
          current_step \in EvalSteps : EvaluateCall(angle, site, speed, current_step)

EvalSpec == SysInit /\ [][EvalNext]_vars

(***************************************************************************)
(* Specifications of the coordinator, one caller as in main.py.  Each      *)
(* explores send_feedback along one dimension of its input.                *)
(***************************************************************************)
CoordSpecInit == PipeInit /\ queue_size = MaxCap /\ CoordInit /\ OrchInit

\* plan building: batches of several alerts
PlanSend(alerts) == sendCount < MaxPlanSends /\ SendFeedback(1, alerts)

PlanNext ==
    \/ \E alerts \in BatchesUpTo(MaxBatch) : PlanSend(alerts)
    \/ \E failing \in SUBSET Modalities : ExecuteStep(1, failing, FALSE)
    \/ \E t \in Times : Tick(t)

PlanSpec == CoordSpecInit /\ [][PlanNext]_vars

\* deduplication: several calls in a row
DedupSend(alerts) == sendCount < MaxSends /\ SendFeedback(1, alerts)

DedupNext ==
    \/ \E alerts \in BatchesUpTo(MaxDedupBatch) : DedupSend(alerts)
    \/ \E failing \in SUBSET Modalities : ExecuteStep(1, failing, FALSE)
    \/ \E t \in Times : Tick(t)

DedupSpec == CoordSpecInit /\ [][DedupNext]_vars

\* plan execution: the outcome of every modality call of a step is observed
DispatchSend(alerts) == sendCount < MaxDispatchSends /\ SendFeedback(1, alerts)

DispatchNext ==
    \/ \E alerts \in BatchesUpTo(MaxDispatchBatch) : DispatchSend(alerts)
    \/ \E failing \in SUBSET Modalities : ExecuteStep(1, failing, TRUE)
    \/ \E t \in Times : Tick(t)

DispatchSpec == CoordSpecInit /\ [][DispatchNext]_vars

\* plan execution over plans of several steps: one alert per severity, the
\* calls of every step observed
ExecAlerts == {Alert("site_correct", "info"), Alert("site_warning", "warning"),
               Alert("angle_error", "critical")}
ExecBatches == UNION {[1..k -> ExecAlerts] : k \in 0..MaxExecBatch}

ExecSend(alerts) == sendCount < MaxExecSends /\ SendFeedback(1, alerts)

ExecNext ==
    \/ \E alerts \in ExecBatches : ExecSend(alerts)
    \/ \E failing \in SUBSET Modalities : ExecuteStep(1, failing, TRUE)

ExecSpec == CoordSpecInit /\ [][ExecNext]_vars

\* deduplication inside a batch: several calls with batches of several
\* alerts, of two kinds and two severities
MixAlerts == {Alert("angle_error", "critical"), Alert("site_warning", "warning")}
MixBatches == UNION {[1..k -> MixAlerts] : k \in 0..MaxMixBatch}

MixSend(alerts) == sendCount < MaxMixSends /\ SendFeedback(1, alerts)

MixNext ==
    \/ \E alerts \in MixBatches : MixSend(alerts)
    \/ \E failing \in SUBSET Modalities : ExecuteStep(1, failing, FALSE)
    \/ \E t \in Times : Tick(t)

MixSpec == CoordSpecInit /\ [][MixNext]_vars

\* two callers using one coordinator at the same time; the clock stands
\* still, so every call falls into the window of every other
ConcSend(c, alert) == sendCount < MaxConcSends /\ SendFeedback(c, <<alert>>)

ConcNext ==
    \/ \E c \in Callers, alert \in Alerts : ConcSend(c, alert)
    \/ \E c \in Callers, failing \in SUBSET Modalities : ExecuteStep(c, failing, FALSE)

ConcSpec == CoordSpecInit /\ [][ConcNext]_vars

\* the single-alert interface generate_feedback, used next to send_feedback
GenSend(alerts) == sendCount < MaxGenSends /\ SendFeedback(1, alerts)

GenNext ==
    \/ \E alerts \in BatchesUpTo(MaxDedupBatch) : GenSend(alerts)
    \/ \E failing \in SUBSET Modalities : ExecuteStep(1, failing, FALSE)
    \/ \E kind \in AlertKinds, severity \in SeverityInputs, message \in Messages :
           GenerateFeedback(kind, severity, message)
    \/ \E t \in Times : Tick(t)

GenSpec == CoordSpecInit /\ [][GenNext]_vars

\* what deduplication is keyed by: single alerts of two kinds, each at two
\* severities and with two message texts
KeyMessages == {"msg", "other"}
KeyAlerts ==
    {[type |-> k, severity |-> sv, message |-> m] :
        k \in {"angle_error", "site_warning"}, sv \in {"warning", "critical"},
        m \in KeyMessages}

KeySend(alert) == sendCount < MaxKeySends /\ SendFeedback(1, <<alert>>)

KeyNext ==
    \/ \E alert \in KeyAlerts : KeySend(alert)
    \/ \E failing \in SUBSET Modalities : ExecuteStep(1, failing, FALSE)
    \/ \E t \in Times : Tick(t)

KeySpec == CoordSpecInit /\ [][KeyNext]_vars

\* a kind that keeps arriving: runs of several calls, each with one alert
WindowAlerts == {Alert("angle_error", "critical"), Alert("site_warning", "warning")}

WindowSend(alert) == sendCount < MaxWindowSends /\ SendFeedback(1, <<alert>>)

WindowNext ==
    \/ \E alert \in WindowAlerts : WindowSend(alert)
    \/ \E failing \in SUBSET Modalities : ExecuteStep(1, failing, FALSE)
    \/ \E t \in Times : Tick(t)

WindowSpec == CoordSpecInit /\ [][WindowNext]_vars

\* the order of a plan: batches with several alerts of one severity
SortAlerts == {Alert("site_warning", "warning"), Alert("angle_warning", "warning"),
               Alert("angle_error", "critical")}
SortBatches == UNION {[1..k -> SortAlerts] : k \in 0..MaxSortBatch}

SortSend(alerts) == sendCount < MaxSortSends /\ SendFeedback(1, alerts)

SortNext ==
    \/ \E alerts \in SortBatches : SortSend(alerts)
    \/ \E failing \in SUBSET Modalities : ExecuteStep(1, failing, FALSE)

SortSpec == CoordSpecInit /\ [][SortNext]_vars

\* plan execution call by call: plans of several steps, a step of three
\* calls and a step of one
JoinAlerts == {Alert("angle_error", "critical"), Alert("site_correct", "info")}
JoinBatches == UNION {[1..k -> JoinAlerts] : k \in 0..MaxJoinBatch}

JoinSend(alerts) == sendCount < MaxJoinSends /\ SendFeedback(1, alerts)

JoinNext ==
    \/ \E alerts \in JoinBatches : JoinSend(alerts)
    \/ \E m \in Modalities : CallStart(1, m)
    \/ \E m \in Modalities, raises \in BOOLEAN : CallEnd(1, m, raises)
    \/ StepDone(1)

JoinSpec == CoordSpecInit /\ [][JoinNext]_vars

(***************************************************************************)
(* Specification of the pipeline                                           *)
(***************************************************************************)
Init == PipeInit /\ CoordInit /\ OrchInit

Next ==
    \/ \E fp \in BOOLEAN : Start(fp)
    \/ \E fp \in BOOLEAN : StartFails(fp)
    \/ \E p \in TaskIds : ProducerRead(p)
    \/ \E p \in TaskIds : ProducerReadNone(p, FALSE)
    \/ \E p \in TaskIds : ProducerExit(p)
    \/ \E c \in TaskIds : ConsumerDequeue(c)
    \/ \E c \in TaskIds : ConsumerTimeoutExit(c)
    \/ \E c \in TaskIds : ProcessorReturns(c)
    \/ \E c \in TaskIds : ProcessorRaises(c)
    \/ StopBegin
    \/ StopFinish

Spec == Init /\ [][Next]_vars

\* the pipeline as main.py uses it: every start() is given a processor, so
\* every frame taken from the queue is handed to it
ProcStart == Start(TRUE)

ProcStartFails == StartFails(TRUE)

ProcNext ==
    \/ ProcStart
    \/ ProcStartFails
    \/ \E p \in TaskIds : ProducerRead(p)
    \/ \E p \in TaskIds : ProducerReadNone(p, FALSE)
    \/ \E p \in TaskIds : ProducerExit(p)
    \/ \E c \in TaskIds : ConsumerDequeue(c)
    \/ \E c \in TaskIds : ConsumerTimeoutExit(c)
    \/ \E c \in TaskIds : ProcessorReturns(c)
    \/ \E c \in TaskIds : ProcessorRaises(c)
    \/ StopBegin
    \/ StopFinish

ProcSpec == Init /\ [][ProcNext]_vars

\* the same pipeline under fair scheduling: a consumer that can take a frame
\* does, and every processor call ends
ProcFairSpec ==
    /\ Init
    /\ [][ProcNext]_vars
    /\ \A c \in TaskIds : WF_vars(ConsumerDequeue(c))
    /\ \A c \in TaskIds : WF_vars(ProcessorReturns(c) \/ ProcessorRaises(c))

\* the pipeline started once, under the same scheduling
OnceStart == Spawned = {} /\ Start(TRUE)

OnceNext ==
    \/ OnceStart
    \/ \E p \in TaskIds : ProducerRead(p)
    \/ \E p \in TaskIds : ProducerReadNone(p, FALSE)
    \/ \E p \in TaskIds : ProducerExit(p)
    \/ \E c \in TaskIds : ConsumerDequeue(c)
    \/ \E c \in TaskIds : ConsumerTimeoutExit(c)
    \/ \E c \in TaskIds : ProcessorReturns(c)
    \/ \E c \in TaskIds : ProcessorRaises(c)
    \/ StopBegin
    \/ StopFinish

OnceFairSpec ==
    /\ Init
    /\ [][OnceNext]_vars
    /\ \A c \in TaskIds : WF_vars(ConsumerDequeue(c))
    /\ \A c \in TaskIds : WF_vars(ProcessorReturns(c) \/ ProcessorRaises(c))

\* the pipeline with the source's failed reads kept in the history
SourceNext ==
    \/ \E fp \in BOOLEAN : Start(fp)
    \/ \E fp \in BOOLEAN : StartFails(fp)
    \/ \E p \in TaskIds : ProducerRead(p)
    \/ \E p \in TaskIds : ProducerReadNone(p, TRUE)
    \/ \E p \in TaskIds : ProducerExit(p)
    \/ \E c \in TaskIds : ConsumerDequeue(c)
    \/ \E c \in TaskIds : ConsumerTimeoutExit(c)
    \/ \E c \in TaskIds : ProcessorReturns(c)
    \/ \E c \in TaskIds : ProcessorRaises(c)
    \/ StopBegin
    \/ StopFinish

SourceSpec == Init /\ [][SourceNext]_vars

\* the pipeline with consumers that never get to run: the processor is
\* slower than the run is long.  The producer's sleep ends, so a producer
\* that can take its next frame does.
StallNext ==
    \/ \E fp \in BOOLEAN : Start(fp)
    \/ \E fp \in BOOLEAN : StartFails(fp)
    \/ \E p \in TaskIds : ProducerRead(p)
    \/ \E p \in TaskIds : ProducerReadNone(p, FALSE)
    \/ \E p \in TaskIds : ProducerExit(p)
    \/ StopBegin
    \/ StopFinish

StallSpec ==
    /\ Init
    /\ [][StallNext]_vars
    /\ \A p \in TaskIds : WF_vars(ProducerRead(p))

(***************************************************************************)
(* Properties of the pipeline                                              *)
(***************************************************************************)
HandedFrame(i) == handed[i].frame

\* C1: for every capacity >= 1 and every interleaving of the producer and the
\* consumer, the frame queue never holds more than queue_size frames.
C1_QueueBounded == Len(frame_queue) <= queue_size

\* C1 witness: the queue is full after an overflow, and the consumer has run.
C1_Witness ==
    /\ Len(frame_queue) = queue_size
    /\ stats.frames_dropped > 0
    /\ handed # <<>>

\* C2: an enqueue into a full queue evicts exactly the oldest frame and puts
\* the new frame at the tail: the queue always is the run of the most
\* recently read frames, every evicted frame is older than every queued one,
\* one frame is evicted per overflow, and the newest frame is never evicted.
C2_DropOldest ==
    /\ \A i \in 1..Len(frame_queue) :
           frame_queue[i].image = reads - Len(frame_queue) + i
    /\ \A d \in dropped : \A i \in 1..Len(frame_queue) : d < frame_queue[i].image
    /\ reads \notin dropped
    /\ Cardinality(dropped) = stats.frames_dropped

\* C2 witness: a full queue of two frames has taken a further frame: the
\* older of the two is gone, the younger is at the head and the new frame at
\* the tail.
C2_Witness ==
    /\ Len(frame_queue) = 2
    /\ dropped # {}
    /\ frame_queue[1].image = reads - 1
    /\ frame_queue[2].image = reads
    /\ \A d \in dropped : d < reads - 1

\* C3 (as claimed): the frame_id values handed to the processor are strictly
\* increasing, so no frame_id is seen twice, overflow or not.
C3_StrictlyIncreasingIds ==
    \A i, j \in 1..Len(handed) :
        i < j => HandedFrame(i).frame_id < HandedFrame(j).frame_id

\* C10: while the pipeline is running, a processor exception leaves the
\* consumer task alive and back at its queue wait, and changes nothing of
\* the producer tasks.
C10_ProcessorFailureContained ==
    [][\A c \in TaskIds :
          (ProcessorRaises(c) /\ running) =>
              /\ consumers'[c].st = "wait"
              /\ producers' = producers
              /\ running'
              /\ frame_queue' = frame_queue]_vars

\* C10 witness: a task whose processor raised on one frame is processing a
\* later frame.
C10_Witness ==
    \E c \in TaskIds :
        /\ consumers[c].failed
        /\ consumers[c].st = "proc"
        /\ \E i \in 1..Len(handed) :
              /\ handed[i].task = c
              /\ HandedFrame(i).image < consumers[c].cur.image

\* C11 (as claimed): a producer whose read returned None has ended: it
\* takes no further frame from the camera and enqueues nothing more.
C11_ProducerEndsOnNone ==
    [][\A p \in TaskIds : p \in noneRead => ~ProducerRead(p)]_vars

\* C12 (as claimed): a processor call that is in flight when stop() is
\* called is still in flight after stop() has cancelled the tasks; only the
\* processor's own return or exception ends it.
C12_InFlightCallFinishes ==
    [][StopBegin =>
          \A c \in TaskIds : consumers[c].st = "proc" => consumers'[c].st = "proc"]_vars

\* a task that has been spawned and has not finished
Live(t) == producers[t] = "alive" \/ consumers[t].st \in {"wait", "proc"}

\* stop() has returned and start() has not been called since
Stopped == ~running /\ ~stopping /\ cap = "none"

\* C13 (as claimed): when stop() releases the camera and returns, every
\* producer and consumer loop has finished, and once stop() has returned no
\* frame is read, enqueued or taken from the queue.
C13_StopTerminatesLoops ==
    [][/\ StopFinish => \A t \in TaskIds : ~Live(t)
       /\ Stopped => \A t \in TaskIds : ~ProducerRead(t) /\ ~ConsumerDequeue(t)]_vars

\* the state a completed stop() leaves: not running, the tasks the pipeline
\* holds finished or absent, the camera released
Quiescent ==
    /\ ~running
    /\ cap = "none"
    /\ producer_task = NoTask \/ producers[producer_task] = "done"
    /\ consumer_task = NoTask \/ consumers[consumer_task].st = "done"

\* C14: stop() on a pipeline that was never started or is already stopped
\* changes nothing: running, the tasks, the camera, the queue and the
\* counters are after each of its steps what they were before.
C14_StopIdempotent ==
    [][(Quiescent /\ (StopBegin \/ StopFinish)) =>
          /\ Quiescent'
          /\ running' = running
          /\ cap' = cap
          /\ producers' = producers
          /\ consumers' = consumers
          /\ producer_task' = producer_task
          /\ consumer_task' = consumer_task
          /\ frame_queue' = frame_queue
          /\ stats' = stats]_vars

\* C14 witness: a second stop() is under way on a pipeline that was started
\* and stopped.
C14_Witness ==
    /\ stopping
    /\ Quiescent
    /\ producer_task # NoTask

\* C14, the other case: stop() is under way on a pipeline never started.
C14_WitnessNeverStarted ==
    /\ stopping
    /\ Quiescent
    /\ producer_task = NoTask

\* C15 (as claimed): at most one processor call is in flight at any time.
C15_SingleInFlight ==
    Cardinality({c \in TaskIds : consumers[c].st = "proc"}) <= 1

\* C16: frames reach the processor in the order they were read and
\* enqueued: of two frames handed over, the one read first is handed first.
C16_FifoHandOver ==
    \A i, j \in 1..Len(handed) :
        i < j => HandedFrame(i).image < HandedFrame(j).image

\* C16 witness: two frames were handed over and a frame read between them
\* was evicted.
C16_Witness ==
    /\ Len(handed) >= 2
    /\ \E d \in dropped : HandedFrame(1).image < d /\ d < HandedFrame(2).image

\* C17: with consumers that never dequeue, a producer of a running pipeline
\* whose camera yields frames takes the next frame, whatever the queue
\* holds (up to the number of reads explored).
C17_ProducerNeverBlocked ==
    \A p \in TaskIds : \A n \in 0..(MaxReads - 1) :
        (producers[p] = "alive" /\ running /\ cap = "open" /\ reads = n)
            ~> (reads > n \/ ~running \/ cap # "open" \/ producers[p] # "alive")

\* C17 witness: the producer has read past a full queue that no consumer
\* has touched, and is about to read again.
C17_Witness ==
    /\ running /\ cap = "open"
    /\ producer_task # NoTask /\ producers[producer_task] = "alive"
    /\ Len(frame_queue) = queue_size
    /\ stats.frames_dropped > 0
    /\ handed = <<>>
    /\ reads < MaxReads

\* the queue of the first start() is still in use: no later start() has
\* replaced it, and stop() has not been called
FirstQueueInUse == producer_task = 1 /\ running /\ cap = "open"

\* C18: with a consumer that never runs, after n reads into a queue of
\* capacity C < n the queue holds the last C frames read and
\* frames_dropped = n - C.
C18_DroppedCountsEvictions ==
    (FirstQueueInUse /\ reads > queue_size) =>
        /\ stats.frames_dropped = reads - queue_size
        /\ Len(frame_queue) = queue_size
        /\ \A i \in 1..Len(frame_queue) :
               frame_queue[i].image = reads - queue_size + i

\* C18 witness: two frames more than the queue holds have been read.
C18_Witness ==
    /\ FirstQueueInUse
    /\ reads = queue_size + 2
    /\ stats.frames_dropped = 2

(***************************************************************************)
(* Properties of the coordinator                                           *)
(***************************************************************************)
W == history_window_sec

\* C4 (as claimed): the plan is in descending priority critical > warning >
\* info: no step built from a less severe alert precedes a step built from
\* a more severe one.
C4_PlanBySeverity ==
    \A i, j \in 1..Len(lastSend.plan) :
        i < j => get_severity_priority(lastSend.plan[i].alert.severity)
                     <= get_severity_priority(lastSend.plan[j].alert.severity)

\* C5: an alert submitted less than the window after an alert of its kind
\* was delivered gets no plan step; an alert of a known severity submitted
\* more than the window after the previous submission of its kind, which was
\* delivered, gets a plan step.
C5_DedupWindow ==
    \A i \in 1..Len(lastSend.alerts) :
        LET a == lastSend.alerts[i]
            t1 == lastSend.prevDelivered[a.type]
        IN /\ (t1 # Never /\ lastSend.time - t1 < W)
                  => a.type \notin StepKinds(lastSend.plan)
           /\ (/\ a.severity \in Severities
               /\ t1 # Never
               /\ lastSend.prevRecorded[a.type] = t1
               /\ lastSend.time - t1 > W)
                  => a.type \in StepKinds(lastSend.plan)

\* C5 witness: the second call submits, inside the window, a kind the first
\* call delivered, and the plan has no step for it.
C5_Witness ==
    /\ lastSend.n = 2
    /\ \E i \in 1..Len(lastSend.alerts) :
          LET a == lastSend.alerts[i]
              t1 == lastSend.prevDelivered[a.type]
          IN /\ a.severity \in Severities
             /\ t1 # Never
             /\ lastSend.time - t1 < W
             /\ lastSend.time > t1
             /\ a.type \notin StepKinds(lastSend.plan)

\* the other case of C5: the second call comes after the window and the
\* kind gets its step again.
C5_WitnessAfterWindow ==
    /\ lastSend.n = 2
    /\ \E i \in 1..Len(lastSend.alerts) :
          LET a == lastSend.alerts[i]
              t1 == lastSend.prevDelivered[a.type]
          IN /\ t1 # Never
             /\ lastSend.time - t1 > W
             /\ a.type \in StepKinds(lastSend.plan)

\* C6 (as claimed): _record_feedback appends one history entry per alert
\* that survived deduplication and none for a suppressed alert.
C6_HistoryOnlySurvivors == lastRecord.appended = lastRecord.survivors

\* C7 (as claimed): a generate_feedback call that repeats the previous
\* generate_feedback call's alert type inside the window returns
\* deduplicated = True.
C7_SecondGenerateDeduplicated == genRepeat => result.deduplicated

\* C8: the severity of the alert a step was built from determines the step:
\* critical gives audio, vibration and visual, simultaneous; warning gives
\* audio and vibration, simultaneous; info gives audio alone.
C8_SeverityModalities ==
    \A i \in 1..Len(lastSend.plan) :
        LET step == lastSend.plan[i]
            sev == step.alert.severity
        IN /\ sev \in Severities
           /\ sev = "critical" =>
                 /\ step.modalities = <<"audio", "vibration", "visual">>
                 /\ step.synchronization = "simultaneous"
           /\ sev = "warning" =>
                 /\ step.modalities = <<"audio", "vibration">>
                 /\ step.synchronization = "simultaneous"
           /\ sev = "info" => step.modalities = <<"audio">>

\* C8 witness: one plan holds a critical step and a warning step of
\* different kinds.
C8_Witness ==
    \E i, j \in 1..Len(lastSend.plan) :
        /\ lastSend.plan[i].alert.severity = "critical"
        /\ lastSend.plan[j].alert.severity = "warning"
        /\ lastSend.plan[i].alert.type # lastSend.plan[j].alert.type

\* C9: in a simultaneous step a failing call prevents nothing: every
\* modality call of the step is invoked, every call that does not fail
\* completes, and no exception leaves execute.
C9_SimultaneousIsolation ==
    (dispatch.synchronization = "simultaneous" /\ dispatch.failing # {}) =>
        /\ dispatch.invoked = SeqToSet(dispatch.modalities)
        /\ dispatch.completed = SeqToSet(dispatch.modalities) \ dispatch.failing
        /\ ~dispatch.escaped

\* C9 witness: vibrate() raised in a critical step, speak() and display()
\* completed.
C9_Witness ==
    /\ dispatch.synchronization = "simultaneous"
    /\ dispatch.failing = {"vibration"}
    /\ {"audio", "visual"} \subseteq dispatch.completed

\* at the last send_feedback call the purged history held an entry of this
\* kind: one was recorded less than the window before the call
InHistory(kind) ==
    /\ lastSend.prevRecorded[kind] # Never
    /\ lastSend.time - lastSend.prevRecorded[kind] < W

\* C19: an alert gets no plan step exactly when the purged history holds an
\* entry of its kind, whatever the severities and the message texts of the
\* alert and of the entry are.
C19_KeyedByKind ==
    \A i \in 1..Len(lastSend.alerts) :
        LET a == lastSend.alerts[i]
        IN a.type \notin StepKinds(lastSend.plan) <=> InHistory(a.type)

\* C19 witness: a critical alert is suppressed by a warning entry of its
\* kind that carries another message.
C19_Witness ==
    /\ lastSend.n >= 2
    /\ lastSend.plan = <<>>
    /\ Len(lastSend.alerts) = 1
    /\ lastSend.alerts[1].severity = "critical"
    /\ \E i \in 1..Len(feedback_history) :
          /\ feedback_history[i].type = lastSend.alerts[1].type
          /\ feedback_history[i].severity = "warning"
          /\ feedback_history[i].message # lastSend.alerts[1].message
          /\ feedback_history[i].timestamp < lastSend.time
          /\ lastSend.time - feedback_history[i].timestamp < W

\* C19, the other case: an alert gets its step although the history holds
\* an entry of another kind with the same message and severity.
C19_WitnessOtherKind ==
    /\ lastSend.n >= 2
    /\ Len(lastSend.plan) = 1
    /\ \E i \in 1..Len(feedback_history) :
          /\ feedback_history[i].type # lastSend.alerts[1].type
          /\ feedback_history[i].message = lastSend.alerts[1].message
          /\ feedback_history[i].severity = lastSend.alerts[1].severity
          /\ lastSend.time - feedback_history[i].timestamp < W

\* C20 (as claimed): the plan has one step per alert of the batch that
\* deduplication does not suppress, whatever the severity strings are.
C20_OneStepPerSurvivor ==
    Len(lastSend.plan) =
        Cardinality({i \in 1..Len(lastSend.alerts) : ~InHistory(lastSend.alerts[i].type)})

\* C21: a failing output call never aborts the rest of the plan: whatever
\* calls raise, execute invokes every modality call of every step, step by
\* step in plan order, and returns without raising.
C21_FailureNeverAborts ==
    dispatch.step > 0 =>
        /\ ~dispatch.escaped
        /\ Len(dispatch.trace) = dispatch.step
        /\ \A i \in 1..dispatch.step :
               dispatch.trace[i] = SeqToSet(lastSend.plan[i].modalities)
        /\ pending[1].st = "idle" => dispatch.step = Len(lastSend.plan)
        /\ pending[1].st = "exec" =>
               pending[1].plan = SubSeq(lastSend.plan, dispatch.step + 1, Len(lastSend.plan))

\* C21 witness: execute has returned from a plan of several steps in which a
\* call of an earlier step raised, and the calls of the last step were made.
C21_Witness ==
    /\ pending[1].st = "idle"
    /\ Len(lastSend.plan) >= 2
    /\ dispatch.step = Len(lastSend.plan)
    /\ dispatch.failedBefore
    /\ dispatch.invoked = SeqToSet(lastSend.plan[dispatch.step].modalities)

\* C27: the history is purged before every deduplication check: after a
\* check at time t the history holds no entry with timestamp <= t - window,
\* and an alert of a known severity whose kind was last recorded a window or
\* more before the check is not suppressed.
C27_PurgedBeforeCheck ==
    lastSend.alerts # <<>> =>
        /\ \A i \in 1..Len(feedback_history) :
               feedback_history[i].timestamp > lastSend.time - W
        /\ \A i \in 1..Len(lastSend.alerts) :
               LET a == lastSend.alerts[i]
               IN (/\ a.severity \in Severities
                   /\ lastSend.prevRecorded[a.type] # Never
                   /\ lastSend.time - lastSend.prevRecorded[a.type] >= W)
                      => a.type \in StepKinds(lastSend.plan)

\* C27 witness: a check found an entry of the alert's kind exactly one
\* window old; the entry is gone and the alert has its step.
C27_Witness ==
    /\ lastSend.n >= 2
    /\ Len(lastSend.alerts) = 1
    /\ lastSend.prevRecorded[lastSend.alerts[1].type] # Never
    /\ lastSend.time - lastSend.prevRecorded[lastSend.alerts[1].type] = W
    /\ Len(lastSend.plan) = 1
    /\ \A i \in 1..Len(feedback_history) :
           feedback_history[i].timestamp # lastSend.prevRecorded[lastSend.alerts[1].type]

\* C26: suppression of one alert never hides an alert of another kind in
\* the same batch: an alert (of a severity of the data model) whose kind has
\* no entry in the purged history has a plan step built from it, whatever
\* other alerts of the batch are suppressed.
C26_OtherKindGetsThrough ==
    \A i \in 1..Len(lastSend.alerts) :
        LET a == lastSend.alerts[i]
        IN (a.severity \in Severities /\ ~InHistory(a.type))
               => \E j \in 1..Len(lastSend.plan) : lastSend.plan[j].alert = a

\* C26 witness: in one batch a less severe alert is suppressed by the
\* history and a more severe alert of another kind has its step.
C26_Witness ==
    /\ lastSend.n >= 2
    /\ \E i, k \in 1..Len(lastSend.alerts) :
          LET a == lastSend.alerts[i]
              b == lastSend.alerts[k]
          IN /\ a.type # b.type
             /\ InHistory(a.type)
             /\ a.type \notin StepKinds(lastSend.plan)
             /\ get_severity_priority(b.severity) < get_severity_priority(a.severity)
             /\ ~InHistory(b.type)
             /\ \E j \in 1..Len(lastSend.plan) : lastSend.plan[j].alert = b

\* the last send_feedback call built no step, made no output call and has
\* returned
NoOutput ==
    /\ lastSend.plan = <<>>
    /\ pending[1].st = "idle"
    /\ dispatch.step = 0

\* C29: the plan is empty exactly when no alert survives: with an empty
\* alert list or a batch whose alerts are all suppressed the plan has no
\* step and no speak/vibrate/display call is made, a batch with a surviving
\* alert (of a severity of the data model) has a step, and a call with an
\* empty alert list leaves the feedback history as it was.
C29_EmptyPlanIffNoSurvivor ==
    /\ [](/\ (lastSend.plan = <<>>) <=>
                (\A i \in 1..Len(lastSend.alerts) : InHistory(lastSend.alerts[i].type))
          /\ (lastSend.plan = <<>>) => NoOutput)
    /\ [][(sendCount' = sendCount + 1 /\ lastSend'.alerts = <<>>)
             => (feedback_history' = feedback_history /\ pending' = pending)]_vars

\* C29 witness: a batch of two alerts of different kinds, both suppressed by
\* the history, has given an empty plan and no call.
C29_Witness ==
    /\ lastSend.n >= 2
    /\ Len(lastSend.alerts) = 2
    /\ lastSend.alerts[1].type # lastSend.alerts[2].type
    /\ InHistory(lastSend.alerts[1].type)
    /\ InHistory(lastSend.alerts[2].type)
    /\ NoOutput

\* C29, the other case: an empty alert list submitted to a coordinator with
\* a history has given an empty plan.
C29_WitnessEmptyList ==
    /\ lastSend.n >= 2
    /\ lastSend.alerts = <<>>
    /\ feedback_history # <<>>
    /\ NoOutput

(***************************************************************************)
(* Properties of start()                                                   *)
(***************************************************************************)
\* start() has raised on a pipeline that is not running: the capture object
\* exists and is not opened
FailedStart == cap = "closed" /\ ~running

\* C28: when the capture device cannot be opened, start() ends in its
\* RuntimeError and leaves the pipeline not running: running stays FALSE and
\* no producer or consumer task is spawned; a stop() that follows clears
\* running, passes its gather and returns with the capture object released.
C28_FailedStartNotRunning ==
    [][/\ ((\E fp \in BOOLEAN : StartFails(fp)) /\ ~running) =>
              /\ FailedStart'
              /\ producers' = producers
              /\ consumers' = consumers
              /\ producer_task' = producer_task
              /\ consumer_task' = consumer_task
       /\ (FailedStart /\ StopBegin) => (FailedStart' /\ stopping')
       /\ (FailedStart /\ StopFinish) => Stopped']_vars

\* C28 witness: the first start() of a pipeline has failed: the pipeline is
\* not running and has no task.
C28_Witness ==
    /\ FailedStart
    /\ Spawned = {}
    /\ producer_task = NoTask
    /\ consumer_task = NoTask

\* C28, the stop() that follows: it is suspended in its gather, about to
\* release the capture object.
C28_WitnessStop ==
    /\ FailedStart
    /\ Spawned = {}
    /\ stopping

\* the send_feedback call of caller c is suspended in a plan that has a
\* step for this kind
DeliveringKind(c, kind) ==
    pending[c].st = "exec" /\ kind \in StepKinds(pending[c].full)

\* C25 (as claimed): accesses to the history are serialized: of two
\* concurrent send_feedback calls with an alert of the same kind inside the
\* window only one builds a step for it, so two calls never are executing a
\* step for the same kind at the same time.
C25_ConcurrentCallsSerialized ==
    \A kind \in AlertKinds : ~(DeliveringKind(1, kind) /\ DeliveringKind(2, kind))

(***************************************************************************)
(* Properties of the per-frame workflow                                    *)
(***************************************************************************)
\* the stages of one frame, in the order of the workflow
StageOrder == <<"perceive", "derive", "decide", "generate", "dispatch">>

IsPrefix(s, t) == Len(s) <= Len(t) /\ SubSeq(t, 1, Len(s)) = s

\* C22: within one frame the stages run in the order perceive, derive
\* metrics, decide, generate feedback, dispatch output: the stages started so
\* far always are an initial part of that order, each once, and a graph run
\* that reaches END has run all five.
C22_StagesInOrder ==
    /\ IsPrefix(work.trace, StageOrder)
    /\ work.node = END => work.trace = StageOrder
    /\ work.node = "decision_making" => work.trace = SubSeq(StageOrder, 1, 2)
    /\ work.node = "feedback_generation" => work.trace = SubSeq(StageOrder, 1, 3)
    /\ work.node = "multimodal_output" => work.trace = SubSeq(StageOrder, 1, 4)

\* C22 witness: the graph run of the second frame has reached END after all
\* five stages.
C22_Witness ==
    /\ Len(handed) >= 2
    /\ work.frame = handed[2].frame.image
    /\ work.node = END
    /\ work.trace = StageOrder

\* C23: perception tolerates partial failure: a sub-analysis that raises
\* gives an empty result and the two others are returned as they are; with
\* pose and flow absent and the site present the angle and the speed are 0,
\* the evaluator is called with the site, and nothing but the evaluator
\* itself can make the frame fail.
C23_PartialPerception ==
    work.node \notin {"none", "vision_processing"} =>
        /\ ~work.results.raised
        /\ work.results.pose = IF work.scene.pose.raises THEN NoPose ELSE work.scene.pose.value
        /\ work.results.site = IF work.scene.site.raises THEN NoSite ELSE work.scene.site.value
        /\ work.results.flow = IF work.scene.flow.raises THEN NoFlow ELSE work.scene.flow.value
        /\ (/\ ~work.results.pose.present
            /\ ~work.results.flow.present
            /\ work.results.site.present) =>
               /\ work.state.injection_angle = 0
               /\ work.state.injection_speed = 0
               /\ work.state.injection_site = work.results.site
               /\ work.node # "decision_making" =>
                      /\ work.context.called
                      /\ work.context.site = work.results.site
                      /\ work.context.angle = 0
                      /\ work.context.speed = 0
               /\ work.node = "raised" => work.evalRaised

\* C23 witness: pose and flow estimation raised, the site was detected, and
\* the frame went through evaluation to the end of the graph with the alert
\* for its site.
C23_Witness ==
    /\ work.scene.pose.raises
    /\ work.scene.flow.raises
    /\ ~work.scene.site.raises
    /\ work.node = END
    /\ work.context.called
    /\ \E i \in 1..Len(work.state.alerts) :
          work.state.alerts[i].type \in {"site_warning", "site_correct"}

\* C24: when the rule evaluator raises, the frame is treated as having no
\* alerts: no output call is made for it, the coordinator is not called and
\* the feedback history is what it was when the frame began; the consumer
\* loop goes on.
C24_EvaluatorFailureContained ==
    /\ work.evalRaised =>
          /\ work.calls = {}
          /\ sendCount = work.base
          /\ pending[1].st = "idle"
          /\ feedback_history = work.history0
    /\ \A c \in TaskIds : consumers[c].failed => consumers[c].st \in {"wait", "proc"}

\* C24 witness: after a frame whose evaluation raised, the next frame has
\* been evaluated and has got its feedback plan from the coordinator.
C24_Witness ==
    /\ consumers[1].failed
    /\ Len(handed) >= 2
    /\ work.frame = handed[Len(handed)].frame.image
    /\ work.node = END
    /\ ~work.evalRaised
    /\ sendCount > work.base
    /\ lastSend.plan # <<>>

C31_WindowFromLastDelivered ==
    \A i \in 1..Len(lastSend.alerts) :
        LET a == lastSend.alerts[i]
            t1 == lastSend.prevDelivered[a.type]
        IN (a.severity \in Severities /\ t1 # Never /\ lastSend.time - t1 > W)
               => a.type \in StepKinds(lastSend.plan)

\* C32 (as claimed): deduplication also applies between the alerts of one
\* batch: the plan built from a batch holds at most one step per kind.
C32_OneStepPerKindInBatch ==
    \A i, j \in 1..Len(lastSend.plan) :
        lastSend.plan[i].alert.type = lastSend.plan[j].alert.type => i = j

\* the alerts the steps of a plan were built from, for one severity
PlanAlertsOf(plan, severity) ==
    LET steps == SelectSeq(plan, LAMBDA st : st.alert.severity = severity)
    IN [i \in 1..Len(steps) |-> steps[i].alert]

\* C33: the severity sort is stable: the alerts of one severity that have a
\* step appear in the plan in the order they have in the input batch.
C33_StableSort ==
    \A severity \in Severities :
        PlanAlertsOf(lastSend.plan, severity) =
            SelectSeq(lastSend.alerts,
                      LAMBDA a : a.severity = severity /\ a.type \in StepKinds(lastSend.plan))

\* C33 witness: a batch of two warnings of different kinds with a critical
\* alert between them has given a plan with the two warning steps in the
\* order of the batch.
C33_Witness ==
    /\ lastSend.alerts = <<Alert("site_warning", "warning"),
                           Alert("angle_error", "critical"),
                           Alert("angle_warning", "warning")>>
    /\ Len(lastSend.plan) = 3
    /\ PlanAlertsOf(lastSend.plan, "warning") =
           <<Alert("site_warning", "warning"), Alert("angle_warning", "warning")>>

\* the calls of caller 1 that have begun for a step of the plan
CallsOfStep(k) == {x \in calls : x.caller = 1 /\ x.step = k}

\* C34: the steps of a plan are executed in plan order with a join between
\* them: when a modality call of a step has begun, every modality call of
\* every earlier step has been made and has returned or raised; the calls
\* running at one time all belong to one step.
C34_JoinBetweenSteps ==
    /\ \A x \in calls :
           /\ x.step \in 1..Len(lastSend.plan)
           /\ x.modality \in SeqToSet(lastSend.plan[x.step].modalities)
           /\ \A k \in 1..(x.step - 1) :
                  \A m \in SeqToSet(lastSend.plan[k].modalities) :
                      \E y \in CallsOfStep(k) : y.modality = m /\ y.st # "run"
    /\ \A x, y \in calls : (x.st = "run" /\ y.st = "run") => x.step = y.step

\* C34 witness: the three calls of a first step overlapped, one of them
\* raised, and the call of the second step is running.
C34_Witness ==
    /\ \E x \in CallsOfStep(2) : x.st = "run"
    /\ Cardinality({x \in CallsOfStep(1) : x.overlapped}) = 2
    /\ \E x \in CallsOfStep(1) : x.st = "failed"

\* C35 (as claimed): whatever start() and stop() calls are made, start()
\* twice in a row included, at most one producer task and at most one
\* consumer task are alive at any time, and once the last stop() has
\* returned no producer or consumer task is running.
C35_SingleTaskPair ==
    /\ Cardinality({t \in TaskIds : producers[t] = "alive"}) <= 1
    /\ Cardinality({t \in TaskIds : consumers[t].st \in {"wait", "proc"}}) <= 1
    /\ Stopped => \A t \in TaskIds : ~Live(t)

(***************************************************************************)
(* Frame accounting                                                        *)
(***************************************************************************)
\* the frames read that were neither taken by a consumer nor counted as
\* dropped nor are in the queue
Unaccounted == reads - Len(handed) - stats.frames_dropped - Len(frame_queue)

\* no frame is handed over twice, and no frame is both evicted and handed
\* over
HandedOnce ==
    /\ \A i, j \in 1..Len(handed) :
           HandedFrame(i).image = HandedFrame(j).image => i = j
    /\ \A i \in 1..Len(handed) : HandedFrame(i).image \notin dropped

\* C36 (as claimed): in every reachable state the frames read are the
\* frames dequeued plus frames_dropped plus the frames in the queue; no
\* frame is processed twice and none is both dropped and processed.
C36_FrameConservation == Unaccounted = 0 /\ HandedOnce

\* C36 (amended): the accounting is exact but for start(): a start() call
\* replaces the queue and the frames it held are neither processed nor
\* counted; every other step leaves the number of unaccounted frames as it
\* is.  No frame is processed twice and none is both dropped and processed.
C36_ConservedButAtStart ==
    /\ []HandedOnce
    /\ [][Unaccounted' = Unaccounted
                + (IF ProcStart \/ ProcStartFails THEN Len(frame_queue) ELSE 0)]_vars

\* C36 witness: after an overflow and a hand-over the pipeline was stopped
\* and started again over a queue that held a frame; the frame is
\* unaccounted for.
C36_Witness ==
    /\ running
    /\ producer_task = 2
    /\ producers[1] = "done"
    /\ consumers[1].st = "done"
    /\ stats.frames_dropped > 0
    /\ handed # <<>>
    /\ Unaccounted > 0

\* the images handed to the processor so far
HandedImages == {HandedFrame(i).image : i \in 1..Len(handed)}

\* C37 (as claimed): while the pipeline stays running and every processor
\* call ends, under fair scheduling every frame that entered the queue is
\* eventually handed to the processor or evicted by a newer frame.
C37_QueuedFrameLeaves ==
    \A n \in 1..MaxReads :
        (n \in Images(frame_queue)) ~> (n \in HandedImages \/ n \in dropped \/ ~running)

\* C38 (as claimed): the frame counter of the stats equals the number of
\* frames read from the source: every read that yields a frame adds one to
\* it, whether the frame went into free space or took the place of the
\* oldest frame.
C38_CounterCountsReads == stats.frames_processed = reads

\* the alerts of a list whose kind is in a family
AlertsOfKinds(alerts, kinds) == SelectSeq(alerts, LAMBDA a : a.type \in kinds)

\* the site alert that belongs to a site result
SiteAlertKind(site) ==
    IF ~site.present THEN "site_error"
    ELSE IF ~site.is_recommended THEN "site_warning" ELSE "site_correct"

\* C39: evaluate returns for every context exactly one alert of the site
\* family (site_error for an absent site, site_warning for a site that is
\* not recommended, site_correct otherwise), at most one angle alert, and a
\* speed alert only when current_step is injection_deliver; so the alert
\* list that reaches feedback generation is never empty and the branch for
\* positive feedback on an empty list is never taken.
C39_AlwaysOneSiteAlert ==
    /\ (work.context.called /\ ~work.evalRaised) =>
          /\ Len(AlertsOfKinds(work.returned, {"site_error", "site_warning", "site_correct"})) = 1
          /\ \E i \in 1..Len(work.returned) :
                 work.returned[i].type = SiteAlertKind(work.context.site)
          /\ Len(AlertsOfKinds(work.returned, {"angle_error", "angle_warning"})) <= 1
          /\ AlertsOfKinds(work.returned, {"speed_fast"}) # <<>> =>
                 work.context.current_step = "injection_deliver"
          /\ work.returned # <<>>
    /\ work.node \in {"feedback_generation", "multimodal_output", END} =>
          /\ work.state.alerts = work.returned
          /\ work.state.alerts # <<>>

\* C39 witness: a valid angle, a recommended site and a speed within the
\* limit during injection_deliver: the only alert is site_correct.
C39_Witness ==
    /\ work.context.called
    /\ work.context.angle = 60
    /\ work.context.site.present /\ work.context.site.is_recommended
    /\ work.context.current_step = "injection_deliver"
    /\ work.context.speed = 5
    /\ work.returned = <<Alert("site_correct", "info")>>

\* C39, in the workflow: a frame with a valid angle and a recommended site
\* has reached feedback generation with the site_correct alert alone.
C39_WitnessWorkflow ==
    /\ work.node = "feedback_generation"
    /\ work.state.alerts = <<Alert("site_correct", "info")>>

\* the frame of `work` has been evaluated and its pose result was absent
AbsentPoseEvaluated ==
    /\ work.node \in {"feedback_generation", "multimodal_output", END}
    /\ ~work.results.pose.present

\* C40: the angle 0 that stands for an absent pose is evaluated like a
\* measured angle: with the default rules a frame without a pose result
\* gets the critical angle_error alert, and from the coordinator a
\* simultaneous step of audio, vibration and visual unless an angle_error
\* entry of the last 30 s suppresses it.
C40_SentinelAngleAlerts ==
    /\ AbsentPoseEvaluated =>
          /\ work.state.injection_angle = 0
          /\ work.context.angle = 0
          /\ \E i \in 1..Len(work.state.alerts) :
                 work.state.alerts[i] = Alert("angle_error", "critical")
    /\ (AbsentPoseEvaluated /\ work.node = END /\ sendCount > work.base) =>
          IF InHistory("angle_error")
          THEN "angle_error" \notin StepKinds(lastSend.plan)
          ELSE \E j \in 1..Len(lastSend.plan) :
                  /\ lastSend.plan[j].alert = Alert("angle_error", "critical")
                  /\ lastSend.plan[j].modalities = <<"audio", "vibration", "visual">>
                  /\ lastSend.plan[j].synchronization = "simultaneous"

\* C40 witness: pose estimation raised on the first frame, the site was
\* found and recommended; the coordinator built the three-modality step for
\* angle_error.
C40_Witness ==
    /\ work.scene.pose.raises
    /\ work.results.site.present /\ work.results.site.is_recommended
    /\ work.node = END
    /\ sendCount = 1
    /\ work.base = 0
    /\ \E j \in 1..Len(lastSend.plan) :
          /\ lastSend.plan[j].alert.type = "angle_error"
          /\ lastSend.plan[j].modalities = <<"audio", "vibration", "visual">>

\* C40, the deduplicated case: the second frame has no pose either, 5 s
\* later, and gets no step for angle_error.
C40_WitnessDeduplicated ==
    /\ AbsentPoseEvaluated
    /\ work.node = END
    /\ sendCount = 2
    /\ work.base = 1
    /\ lastSend.time = 5
    /\ InHistory("angle_error")
    /\ "angle_error" \notin StepKinds(lastSend.plan)

====
